---- MODULE Spec2Model ----
(***************************************************************************)
(* A model of package resolvconf (src/resolvconf.go): the once-only        *)
(* detection of the resolv.conf path (Path), the reader (Get, GetSpecific) *)
(* and the line parser (getLines, getNameservers, getOptions).             *)
(*                                                                         *)
(* A Go string is a sequence of one-character strings.  Indices returned   *)
(* by the string helpers are Go's (0-based, -1 for "not found").           *)
(***************************************************************************)
EXTENDS Integers, Sequences, FiniteSets, TLC

(***************************************************************************)
(* Program constants                                                       *)
(***************************************************************************)
defaultPath == "/etc/resolv.conf"
alternatePath == "/run/systemd/resolve/resolv.conf"
commentMark == <<"#">>
nameserverKey == <<"n", "a", "m", "e", "s", "e", "r", "v", "e", "r">>
optionKey == <<"o", "p", "t", "i", "o", "n">>

Paths == {defaultPath, alternatePath}

(***************************************************************************)
(* Package strings                                                         *)
(***************************************************************************)
\* s[i:] of Go, i 0-based
From(s, i) == SubSeq(s, i + 1, Len(s))

\* s[:i] of Go, i 0-based
Upto(s, i) == SubSeq(s, 1, i)

HasPrefix(s, prefix) ==
    /\ Len(s) >= Len(prefix)
    /\ Upto(s, Len(prefix)) = prefix

TrimPrefix(s, prefix) ==
    IF HasPrefix(s, prefix) THEN From(s, Len(prefix)) ELSE s

RECURSIVE IndexFrom(_, _, _)
IndexFrom(s, sub, i) ==
    IF i + Len(sub) > Len(s) THEN -1
    ELSE IF SubSeq(s, i + 1, i + Len(sub)) = sub THEN i
    ELSE IndexFrom(s, sub, i + 1)

\* strings.Index: the 0-based index of the first instance of sub in s, or -1
Index(s, sub) == IndexFrom(s, sub, 0)

\* strings.Split(s, sep) for a non-empty sep
RECURSIVE Split(_, _)
Split(s, sep) ==
    LET i == Index(s, sep)
    IN  IF i = -1 THEN <<s>>
        ELSE <<Upto(s, i)>> \o Split(From(s, i + Len(sep)), sep)

\* the white space of unicode.IsSpace that is one byte of ASCII
asciiSpace == {" ", "\t", "\n", "\r", "\f"}

RECURSIVE TrimLeft(_)
TrimLeft(s) ==
    IF Len(s) > 0 /\ s[1] \in asciiSpace THEN TrimLeft(Tail(s)) ELSE s

RECURSIVE TrimRight(_)
TrimRight(s) ==
    IF Len(s) > 0 /\ s[Len(s)] \in asciiSpace
    THEN TrimRight(Upto(s, Len(s) - 1))
    ELSE s

TrimSpace(s) == TrimRight(TrimLeft(s))

(***************************************************************************)
(* Package net: ParseIP and IP.IsLoopback.  An IP is the 16-byte form      *)
(* ParseIP returns (an IPv4 address is IPv4-mapped); NilIP is the nil IP.  *)
(***************************************************************************)
NilIP == <<>>

decDigits == <<"0", "1", "2", "3", "4", "5", "6", "7", "8", "9">>
hexDigits == decDigits \o <<"a", "b", "c", "d", "e", "f">>
hexUpper == <<"A", "B", "C", "D", "E", "F">>

IsDec(c) == \E k \in 1..Len(decDigits) : decDigits[k] = c
IsHex(c) ==
    \/ \E k \in 1..Len(hexDigits) : hexDigits[k] = c
    \/ \E k \in 1..Len(hexUpper) : hexUpper[k] = c

HexVal(c) ==
    IF \E k \in 1..Len(hexDigits) : hexDigits[k] = c
    THEN (CHOOSE k \in 1..Len(hexDigits) : hexDigits[k] = c) - 1
    ELSE (CHOOSE k \in 1..Len(hexUpper) : hexUpper[k] = c) + 9

\* dtoi: the decimal number s starts with: [n, c (characters consumed), ok]
RECURSIVE dtoiFrom(_, _, _)
dtoiFrom(s, i, n) ==
    IF i < Len(s) /\ IsDec(s[i + 1])
    THEN LET m == n * 10 + HexVal(s[i + 1])
         IN  IF m >= 16777215 THEN [n |-> 16777215, c |-> i, ok |-> FALSE]
             ELSE dtoiFrom(s, i + 1, m)
    ELSE IF i = 0 THEN [n |-> 0, c |-> 0, ok |-> FALSE]
    ELSE [n |-> n, c |-> i, ok |-> TRUE]

dtoi(s) == dtoiFrom(s, 0, 0)

\* xtoi: the hexadecimal number s starts with
RECURSIVE xtoiFrom(_, _, _)
xtoiFrom(s, i, n) ==
    IF i < Len(s) /\ IsHex(s[i + 1])
    THEN LET m == n * 16 + HexVal(s[i + 1])
         IN  IF m >= 16777215 THEN [n |-> 0, c |-> i, ok |-> FALSE]
             ELSE xtoiFrom(s, i + 1, m)
    ELSE IF i = 0 THEN [n |-> 0, c |-> i, ok |-> FALSE]
    ELSE [n |-> n, c |-> i, ok |-> TRUE]

xtoi(s) == xtoiFrom(s, 0, 0)

\* parseIPv4's loop from octet i on: the octets (a sequence of 4), or <<>>
RECURSIVE parseIPv4From(_, _, _)

\* one octet: d is dtoi(t), t the text at the octet
parseIPv4Octet(t, i, p, d) ==
    IF ~d.ok \/ d.n > 255 THEN <<>>
    ELSE IF d.c > 1 /\ t[1] = "0" THEN <<>>
    ELSE parseIPv4From(From(t, d.c), i + 1, Append(p, d.n))

parseIPv4From(s, i, p) ==
    IF i = 4 THEN (IF Len(s) # 0 THEN <<>> ELSE p)
    ELSE IF Len(s) = 0 THEN <<>>
    ELSE IF i > 0 /\ s[1] # "." THEN <<>>
    ELSE IF i > 0 THEN parseIPv4Octet(Tail(s), i, p, dtoi(Tail(s)))
    ELSE parseIPv4Octet(s, i, p, dtoi(s))

v4InV6Prefix == <<0, 0, 0, 0, 0, 0, 0, 0, 0, 0, 255, 255>>

\* net.IPv4(p[0], p[1], p[2], p[3]), or nil
IPv4(p) == IF p = <<>> THEN NilIP ELSE v4InV6Prefix \o p

parseIPv4(s) == IPv4(parseIPv4From(s, 0, <<>>))

Zeros(n) == [k \in 1..n |-> 0]

\* parseIPv6's loop: ip holds the i bytes parsed so far, ellipsis is the
\* position of "::" in them (-1: none).  The result is [ok, ip, ellipsis, s].
RECURSIVE parseIPv6Loop(_, _, _)

parseIPv6Stop(ok, s, ip, ellipsis) ==
    [ok |-> ok, ip |-> ip, ellipsis |-> ellipsis, s |-> s]

\* after a chunk and its colon: look for the ellipsis
parseIPv6Colon(s, ip, ellipsis) ==
    IF s[1] = ":"
    THEN IF ellipsis >= 0 THEN parseIPv6Stop(FALSE, s, ip, ellipsis)
         ELSE IF Len(s) = 1 THEN parseIPv6Stop(TRUE, <<>>, ip, Len(ip))
         ELSE parseIPv6Loop(Tail(s), ip, Len(ip))
    ELSE parseIPv6Loop(s, ip, ellipsis)

\* after a chunk is saved: the end of the string, or a colon and more
parseIPv6Saved(s, ip, ellipsis) ==
    IF Len(s) = 0 THEN parseIPv6Stop(TRUE, s, ip, ellipsis)
    ELSE IF s[1] # ":" \/ Len(s) = 1 THEN parseIPv6Stop(FALSE, s, ip, ellipsis)
    ELSE parseIPv6Colon(Tail(s), ip, ellipsis)

\* a trailing IPv4 address: ip4 is parseIPv4(s)
parseIPv6Trailing(s, ip, ellipsis, ip4) ==
    IF ip4 = NilIP THEN parseIPv6Stop(FALSE, s, ip, ellipsis)
    ELSE parseIPv6Stop(TRUE, <<>>, ip \o From(ip4, 12), ellipsis)

\* one hex number: x is xtoi(s)
parseIPv6Hex(s, ip, ellipsis, x) ==
    IF ~x.ok \/ x.n > 65535 THEN parseIPv6Stop(FALSE, s, ip, ellipsis)
    ELSE IF x.c < Len(s) /\ s[x.c + 1] = "."
    THEN IF ellipsis < 0 /\ Len(ip) # 12
         THEN parseIPv6Stop(FALSE, s, ip, ellipsis)
         ELSE IF Len(ip) + 4 > 16 THEN parseIPv6Stop(FALSE, s, ip, ellipsis)
         ELSE parseIPv6Trailing(s, ip, ellipsis, parseIPv4(s))
    ELSE parseIPv6Saved(From(s, x.c), ip \o <<x.n \div 256, x.n % 256>>,
                        ellipsis)

parseIPv6Loop(s, ip, ellipsis) ==
    IF Len(ip) >= 16 THEN parseIPv6Stop(TRUE, s, ip, ellipsis)
    ELSE parseIPv6Hex(s, ip, ellipsis, xtoi(s))

\* after the loop: the whole string must be used, the ellipsis expanded
parseIPv6Expand(r) ==
    IF ~r.ok \/ Len(r.s) # 0 THEN NilIP
    ELSE IF Len(r.ip) < 16
    THEN IF r.ellipsis < 0 THEN NilIP
         ELSE Upto(r.ip, r.ellipsis) \o Zeros(16 - Len(r.ip))
                  \o From(r.ip, r.ellipsis)
    ELSE IF r.ellipsis >= 0 THEN NilIP
    ELSE r.ip

parseIPv6(s) ==
    IF Len(s) >= 2 /\ s[1] = ":" /\ s[2] = ":"
    THEN \* a leading ellipsis
         IF Len(s) = 2 THEN Zeros(16)
         ELSE parseIPv6Expand(parseIPv6Loop(From(s, 2), <<>>, 0))
    ELSE parseIPv6Expand(parseIPv6Loop(s, <<>>, -1))

\* net.ParseIP: the first '.' or ':' of s decides the form
RECURSIVE ParseIPFrom(_, _)
ParseIPFrom(s, i) ==
    IF i >= Len(s) THEN NilIP
    ELSE IF s[i + 1] = "." THEN parseIPv4(s)
    ELSE IF s[i + 1] = ":" THEN parseIPv6(s)
    ELSE ParseIPFrom(s, i + 1)

ParseIP(s) == ParseIPFrom(s, 0)

IPv6loopback == Zeros(15) \o <<1>>

\* IP.IsLoopback: 127.0.0.0/8 for an IPv4(-mapped) address, else ::1
IsLoopback(ip) ==
    IF Len(ip) = 16 /\ Upto(ip, 12) = v4InV6Prefix
    THEN ip[13] = 127
    ELSE ip = IPv6loopback

(***************************************************************************)
(* hash.go: hashData.  The SHA-256 digest is a term over the bytes hashed  *)
(* (no two inputs collide); the hash is the prefix "sha256:" and the       *)
(* digest's hexadecimal form.                                              *)
(***************************************************************************)
Sum256(data) == [sha256 |-> data]

EncodeToString(digest) == [hex |-> digest]

hashData(src) == <<"sha256:", EncodeToString(Sum256(src))>>

(***************************************************************************)
(* Errors and results.  A Go error is a record: kind "nil" is the nil      *)
(* error, "file" ioutil.ReadFile's error, "parse" getNameservers' error    *)
(* with the line index and the offending text it formats.                  *)
(***************************************************************************)
NoErr == [kind |-> "nil", line |-> -1, text |-> <<>>]
FileErr == [kind |-> "file", line |-> -1, text |-> <<>>]
ParseErr(i, line) == [kind |-> "parse", line |-> i, text |-> line]

\* the content of a path: a readable file with its bytes, or no readable file
Readable(data) == [ok |-> TRUE, data |-> data]
Unreadable == [ok |-> FALSE, data |-> <<>>]

\* ioutil.ReadFile
ReadFile(fs, path) ==
    IF fs[path].ok THEN [data |-> fs[path].data, err |-> NoErr]
    ELSE [data |-> <<>>, err |-> FileErr]

(***************************************************************************)
(* The line parser                                                         *)
(***************************************************************************)
\* Fault: getLines leaves out the lines that are empty once stripped.
getLinesDropEmpty(input, commentMarker) ==
    LET lines == Split(input, <<"\n">>)
        strip(l) == TrimSpace(IF Index(l, commentMarker) # -1
                              THEN Upto(l, Index(l, commentMarker))
                              ELSE l)
    IN  SelectSeq([k \in 1..Len(lines) |-> strip(lines[k])],
                  LAMBDA l : l # <<>>)

\* getLines parses input into lines and strips away comments and spaces.
getLines(input, commentMarker) ==
    LET lines == Split(input, <<"\n">>)
    IN  [k \in 1..Len(lines) |->
            LET currentLine == lines[k]
                commentIndex == Index(currentLine, commentMarker)
                line == IF commentIndex # -1
                        THEN Upto(currentLine, commentIndex)
                        ELSE currentLine
            IN  TrimSpace(line)]

\* getNameservers' loop from the line of (0-based) index i on
RECURSIVE getNameserversFrom(_, _, _)

\* a nameserver line: line is what follows the key, ip is net.ParseIP(line)
getNameserversIP(lines, i, nameservers, line, ip) ==
    IF ip = NilIP
    THEN [ns |-> <<>>, isNil |-> TRUE, err |-> ParseErr(i, line)]
    ELSE getNameserversFrom(lines, i + 1, Append(nameservers, ip))

getNameserversLine(lines, i, nameservers, line) ==
    getNameserversIP(lines, i, nameservers, line, ParseIP(line))

getNameserversFrom(lines, i, nameservers) ==
    IF i >= Len(lines) THEN [ns |-> nameservers, isNil |-> FALSE, err |-> NoErr]
    ELSE IF ~HasPrefix(lines[i + 1], nameserverKey)
    THEN getNameserversFrom(lines, i + 1, nameservers)
    ELSE getNameserversLine(lines, i, nameservers,
             TrimSpace(TrimPrefix(lines[i + 1], nameserverKey)))

\* Fault: a nameserver line that is no IP literal is skipped, not an error.
RECURSIVE getNameserversLenientFrom(_, _, _)
getNameserversLenientFrom(lines, i, nameservers) ==
    IF i >= Len(lines) THEN [ns |-> nameservers, isNil |-> FALSE, err |-> NoErr]
    ELSE IF ~HasPrefix(lines[i + 1], nameserverKey)
    THEN getNameserversLenientFrom(lines, i + 1, nameservers)
    ELSE LET ip == ParseIP(TrimSpace(TrimPrefix(lines[i + 1], nameserverKey)))
         IN  getNameserversLenientFrom(lines, i + 1,
                 IF ip = NilIP THEN nameservers ELSE Append(nameservers, ip))

getNameserversLenient(resolvConf) ==
    getNameserversLenientFrom(getLines(resolvConf, commentMark), 0, <<>>)

\* Fault: a nameserver equal to the one before it is not appended again.
RECURSIVE getNameserversUniqFrom(_, _, _)
getNameserversUniqFrom(lines, i, nameservers) ==
    IF i >= Len(lines) THEN [ns |-> nameservers, isNil |-> FALSE, err |-> NoErr]
    ELSE IF ~HasPrefix(lines[i + 1], nameserverKey)
    THEN getNameserversUniqFrom(lines, i + 1, nameservers)
    ELSE LET line == TrimSpace(TrimPrefix(lines[i + 1], nameserverKey))
             ip == ParseIP(line)
         IN  IF ip = NilIP
             THEN [ns |-> <<>>, isNil |-> TRUE, err |-> ParseErr(i, line)]
             ELSE getNameserversUniqFrom(lines, i + 1,
                      IF Len(nameservers) > 0
                             /\ nameservers[Len(nameservers)] = ip
                      THEN nameservers
                      ELSE Append(nameservers, ip))

getNameserversUniq(resolvConf) ==
    getNameserversUniqFrom(getLines(resolvConf, commentMark), 0, <<>>)

\* getNameservers returns nameservers (if any) listed in /etc/resolv.conf
getNameservers(resolvConf) ==
    getNameserversFrom(getLines(resolvConf, commentMark), 0, <<>>)

RECURSIVE getOptionsFrom(_, _, _)
getOptionsFrom(lines, i, options) ==
    IF i >= Len(lines) THEN options
    ELSE IF ~HasPrefix(lines[i + 1], optionKey)
    THEN getOptionsFrom(lines, i + 1, options)
    ELSE LET line == TrimSpace(TrimPrefix(lines[i + 1], nameserverKey))
         IN  getOptionsFrom(lines, i + 1, Append(options, line))

\* Fault: only the last options line is returned, as getOptions' comment says.
getOptionsLast(resolvConf) ==
    LET all == getOptionsFrom(getLines(resolvConf, commentMark), 0, <<>>)
    IN  IF Len(all) > 1 THEN <<all[Len(all)]>> ELSE all

\* getOptions returns options (if any) listed in /etc/resolv.conf
getOptions(resolvConf) ==
    getOptionsFrom(getLines(resolvConf, commentMark), 0, <<>>)

(***************************************************************************)
(* The reader                                                              *)
(***************************************************************************)
NilFile ==
    [isNil |-> TRUE, Content |-> <<>>, Hash |-> <<>>,
     Nameservers |-> <<>>, Options |-> <<>>]

\* Fault: a parse error is returned with the File read so far.
GetSpecificPartial(fs, path) ==
    LET r == ReadFile(fs, path)
        resolv == r.data
        n == getNameservers(resolv)
    IN  IF r.err.kind # "nil" THEN [file |-> NilFile, err |-> r.err]
        ELSE [file |-> [isNil |-> FALSE,
                        Content |-> resolv,
                        Hash |-> hashData(resolv),
                        Nameservers |-> n.ns,
                        Options |-> getOptions(resolv)],
              err |-> n.err]

\* GetSpecific once the file is read: nameservers is getNameservers' result
GetSpecificParsed(resolv, nameservers) ==
    IF nameservers.err.kind # "nil"
    THEN [file |-> NilFile, err |-> nameservers.err]
    ELSE [file |-> [isNil |-> FALSE,
                    Content |-> resolv,
                    Hash |-> hashData(resolv),
                    Nameservers |-> nameservers.ns,
                    Options |-> getOptions(resolv)],
          err |-> NoErr]

\* GetSpecific after ioutil.ReadFile has returned r
GetSpecificRead(r) ==
    IF r.err.kind # "nil" THEN [file |-> NilFile, err |-> r.err]
    ELSE GetSpecificParsed(r.data, getNameservers(r.data))

\* GetSpecific returns the contents of the user specified resolv.conf file
GetSpecific(fs, path) == GetSpecificRead(ReadFile(fs, path))

(***************************************************************************)
(* The inputs: resolv.conf files made of the lines below, and every short  *)
(* string over a small alphabet.                                           *)
(***************************************************************************)
MaxLines == 2
MaxRaw == 3

\* "nameserver 8.8.8.8"
lineNs8 ==
    <<"n", "a", "m", "e", "s", "e", "r", "v", "e", "r", " ", "8", ".", "8",
      ".", "8", ".", "8">>
\* "nameserver 127.0.0.53"
lineNsStub ==
    <<"n", "a", "m", "e", "s", "e", "r", "v", "e", "r", " ", "1", "2", "7",
      ".", "0", ".", "0", ".", "5", "3">>
\* "nameserver ::1"
lineNsLoop6 ==
    <<"n", "a", "m", "e", "s", "e", "r", "v", "e", "r", " ", ":", ":", "1">>
\* "nameserver 8.8"
lineNsBad ==
    <<"n", "a", "m", "e", "s", "e", "r", "v", "e", "r", " ", "8", ".", "8">>
\* "nameserver"
lineNsBare == <<"n", "a", "m", "e", "s", "e", "r", "v", "e", "r">>
\* "  nameserver 10.0.0.1 # dns\r"
lineNsPadded ==
    <<" ", " ", "n", "a", "m", "e", "s", "e", "r", "v", "e", "r", " ", "1",
      "0", ".", "0", ".", "0", ".", "1", " ", "#", " ", "d", "n", "s", "\r">>
\* "#nameserver 8.8"
lineNsCommented ==
    <<"#", "n", "a", "m", "e", "s", "e", "r", "v", "e", "r", " ", "8", ".",
      "8">>
\* "# comment"
lineComment == <<"#", " ", "c", "o", "m", "m", "e", "n", "t">>
\* ""
lineBlank == <<>>
\* "option ndots:0"
lineOption ==
    <<"o", "p", "t", "i", "o", "n", " ", "n", "d", "o", "t", "s", ":", "0">>
\* "\toptions rotate #x"
lineOptions ==
    <<"\t", "o", "p", "t", "i", "o", "n", "s", " ", "r", "o", "t", "a", "t",
      "e", " ", "#", "x">>
\* "search local"
lineSearch == <<"s", "e", "a", "r", "c", "h", " ", "l", "o", "c", "a", "l">>

SampleLines ==
    {lineNs8, lineNsStub, lineNsLoop6, lineNsBad, lineNsBare, lineNsPadded,
     lineNsCommented, lineComment, lineBlank, lineOption, lineOptions,
     lineSearch}

RECURSIVE Join(_)
Join(ls) ==
    IF Len(ls) = 1 THEN ls[1] ELSE ls[1] \o <<"\n">> \o Join(Tail(ls))

\* "nameserver 8.8.8.8\n# comment\noption ndots:0"
scenarioFile == Join(<<lineNs8, lineComment, lineOption>>)

\* longer files: a repeated nameserver, and two bad lines after a good one
ScenarioFiles ==
    {scenarioFile,
     Join(<<lineNs8, lineNs8, lineNsStub>>),
     Join(<<lineNs8, lineNsBad, lineNsBare>>)}

rawAlphabet == {"#", " ", "\n", "n"}

Contents ==
    {Join(ls) : ls \in UNION {[1..n -> SampleLines] : n \in 1..MaxLines}}
        \cup UNION {[1..n -> rawAlphabet] : n \in 0..MaxRaw}
        \cup ScenarioFiles

Markers == {commentMark, <<" ", "#">>, <<"n">>}

\* the states of /etc/resolv.conf the detection is run against
DefaultFiles ==
    {Unreadable} \cup
    {Readable(Join(ls)) : ls \in
        {<<lineNsStub>>, <<lineNs8>>, <<lineNsLoop6>>,
         <<lineNsStub, lineNs8>>, <<lineNsStub, lineNsStub>>,
         <<lineNsStub, lineNsBad>>, <<lineComment, lineOption>>}}

AlternateFiles == {Unreadable, Readable(lineNs8)}

\* what /etc/resolv.conf becomes when it is removed, created or rewritten
ChangedFiles == {Unreadable, Readable(lineNs8), Readable(lineNsStub)}

(***************************************************************************)
(* The program state                                                       *)
(***************************************************************************)
Procs == {"g1", "g2"}
MaxCalls == 2

VARIABLES
    files,                      \* the file system: path -> file state
    once,                       \* detectSystemdResolvConfOnce: done, m
    pathAfterSystemdDetection,
    pc,                         \* each goroutine's position
    op,                         \* the exported function a goroutine is in
    candidateResolvConf,        \* Path's closure: the bytes it read
    arg,                        \* GetSpecific's path
    res,                        \* log: what Get last returned
    probes,                     \* log: the reads of the detection
    returned,                   \* log: the values Path has returned
    changed,                    \* /etc/resolv.conf changed after a probe
    calls,
    out                         \* the result of a parser function run alone

vars ==
    <<files, once, pathAfterSystemdDetection, pc, op, candidateResolvConf,
      arg, res, probes, returned, changed, calls, out>>

free == "free"
NoRes ==
    [op |-> "none", path |-> "", file |-> NilFile, err |-> NoErr,
     changed |-> FALSE]
NoOut ==
    [fn |-> "none", marker |-> <<>>, lines |-> <<>>,
     ns |-> [ns |-> <<>>, isNil |-> TRUE, err |-> NoErr],
     options |-> <<>>, res |-> [file |-> NilFile, err |-> NoErr]]

InitProgram ==
    /\ once = [done |-> 0, m |-> free]
    /\ pathAfterSystemdDetection = defaultPath
    /\ pc = [p \in Procs |-> "idle"]
    /\ op = [p \in Procs |-> "none"]
    /\ candidateResolvConf = [p \in Procs |-> <<>>]
    /\ arg = [p \in Procs |-> ""]
    /\ res = NoRes
    /\ probes = <<>>
    /\ returned = <<>>
    /\ changed = FALSE
    /\ calls = 0
    /\ out = NoOut

Init ==
    /\ \E d \in DefaultFiles, a \in AlternateFiles :
           files = [path \in Paths |-> IF path = defaultPath THEN d ELSE a]
    /\ InitProgram

(***************************************************************************)
(* Path and Get, called by concurrent goroutines                           *)
(***************************************************************************)
CallPath(p) ==
    /\ pc[p] = "idle"
    /\ calls < MaxCalls
    /\ calls' = calls + 1
    /\ op' = [op EXCEPT ![p] = "Path"]
    /\ pc' = [pc EXCEPT ![p] = "Do"]
    /\ UNCHANGED res
    /\ UNCHANGED <<files, once, pathAfterSystemdDetection,
                   candidateResolvConf, arg, probes, returned, changed, out>>

\* Get: GetSpecific(Path())
CallGet(p) ==
    /\ pc[p] = "idle"
    /\ calls < MaxCalls
    /\ calls' = calls + 1
    /\ op' = [op EXCEPT ![p] = "Get"]
    /\ pc' = [pc EXCEPT ![p] = "Do"]
    /\ UNCHANGED res
    /\ UNCHANGED <<files, once, pathAfterSystemdDetection,
                   candidateResolvConf, arg, probes, returned, changed, out>>

\* sync.Once.Do: the fast path, a load of done
OnceDo(p) ==
    /\ pc[p] = "Do"
    /\ pc' = [pc EXCEPT ![p] = IF once.done = 0 THEN "doSlow" ELSE "Return"]
    /\ UNCHANGED <<files, once, pathAfterSystemdDetection, op,
                   candidateResolvConf, arg, res, probes, returned, changed,
                   calls, out>>

\* Fault: done is not read again under the lock.
OnceDoSlowNoRecheck(p) ==
    /\ pc[p] = "doSlow"
    /\ once.m = free
    /\ once' = [once EXCEPT !.m = p]
    /\ pc' = [pc EXCEPT ![p] = "ReadFile"]
    /\ UNCHANGED <<files, pathAfterSystemdDetection, op,
                   candidateResolvConf, arg, res, probes, returned, changed,
                   calls, out>>

\* Fault: done is stored before the function has run.
OnceDoSlowEarlyDone(p) ==
    /\ pc[p] = "doSlow"
    /\ once.m = free
    /\ IF once.done = 0
       THEN /\ once' = [done |-> 1, m |-> p]
            /\ pc' = [pc EXCEPT ![p] = "ReadFile"]
       ELSE /\ once' = once
            /\ pc' = [pc EXCEPT ![p] = "Return"]
    /\ UNCHANGED <<files, pathAfterSystemdDetection, op,
                   candidateResolvConf, arg, res, probes, returned, changed,
                   calls, out>>

\* sync.Once.doSlow: m.Lock(), then done is read again under the lock; the
\* function runs with m held, or m is unlocked at once
OnceDoSlow(p) ==
    /\ pc[p] = "doSlow"
    /\ once.m = free
    /\ IF once.done = 0
       THEN /\ once' = [once EXCEPT !.m = p]
            /\ pc' = [pc EXCEPT ![p] = "ReadFile"]
       ELSE /\ once' = once
            /\ pc' = [pc EXCEPT ![p] = "Return"]
    /\ UNCHANGED <<files, pathAfterSystemdDetection, op,
                   candidateResolvConf, arg, res, probes, returned, changed,
                   calls, out>>

\* Fault: an unreadable /etc/resolv.conf selects alternatePath.
DetectReadFileFallback(p) ==
    /\ pc[p] = "ReadFile"
    /\ LET r == ReadFile(files, defaultPath)
       IN  /\ probes' = Append(probes, [saw |-> files[defaultPath],
                                        afterReturn |-> Len(returned) > 0])
           /\ IF r.err.kind # "nil"
              THEN /\ pc' = [pc EXCEPT ![p] = "doneStore"]
                   /\ pathAfterSystemdDetection' = alternatePath
                   /\ UNCHANGED candidateResolvConf
              ELSE /\ pc' = [pc EXCEPT ![p] = "getNameservers"]
                   /\ UNCHANGED pathAfterSystemdDetection
                   /\ candidateResolvConf' =
                          [candidateResolvConf EXCEPT ![p] = r.data]
    /\ UNCHANGED <<files, once, op, arg, res, returned, changed, calls, out>>

\* the detection: ioutil.ReadFile(defaultPath); an error ends it
DetectReadFile(p) ==
    /\ pc[p] = "ReadFile"
    /\ LET r == ReadFile(files, defaultPath)
       IN  /\ probes' = Append(probes, [saw |-> files[defaultPath],
                                        afterReturn |-> Len(returned) > 0])
           /\ IF r.err.kind # "nil"
              THEN /\ pc' = [pc EXCEPT ![p] = "doneStore"]
                   /\ UNCHANGED candidateResolvConf
              ELSE /\ pc' = [pc EXCEPT ![p] = "getNameservers"]
                   /\ candidateResolvConf' =
                          [candidateResolvConf EXCEPT ![p] = r.data]
    /\ UNCHANGED <<files, once, pathAfterSystemdDetection, op, arg, res,
                   returned, changed, calls, out>>

\* Fault: the first nameserver decides, however many there are.
DetectNameserversFirstOnly(p) ==
    /\ pc[p] = "getNameservers"
    /\ LET n == getNameservers(candidateResolvConf[p])
       IN  pathAfterSystemdDetection' =
               IF n.err.kind # "nil" THEN pathAfterSystemdDetection
               ELSE IF Len(n.ns) >= 1 /\ IsLoopback(n.ns[1]) THEN alternatePath
               ELSE pathAfterSystemdDetection
    /\ candidateResolvConf' = [candidateResolvConf EXCEPT ![p] = <<>>]
    /\ pc' = [pc EXCEPT ![p] = "doneStore"]
    /\ UNCHANGED <<files, once, op, arg, res, probes, returned, changed,
                   calls, out>>

\* the closure's last statement: ns is getNameservers' result
Detected(ns, current) ==
    IF ns.err.kind # "nil" THEN current
    ELSE IF Len(ns.ns) = 1 /\ IsLoopback(ns.ns[1]) THEN alternatePath
    ELSE current

\* the detection: getNameservers, and the switch to alternatePath
DetectNameservers(p) ==
    /\ pc[p] = "getNameservers"
    /\ pathAfterSystemdDetection' =
           Detected(getNameservers(candidateResolvConf[p]),
                    pathAfterSystemdDetection)
    /\ candidateResolvConf' = [candidateResolvConf EXCEPT ![p] = <<>>]
    /\ pc' = [pc EXCEPT ![p] = "doneStore"]
    /\ UNCHANGED <<files, once, op, arg, res, probes, returned, changed,
                   calls, out>>

\* sync.Once.doSlow's deferred calls: done is stored, m unlocked
OnceDone(p) ==
    /\ pc[p] = "doneStore"
    /\ once' = [done |-> 1, m |-> free]
    /\ pc' = [pc EXCEPT ![p] = "Return"]
    /\ UNCHANGED <<files, pathAfterSystemdDetection, op,
                   candidateResolvConf, arg, res, probes, returned, changed,
                   calls, out>>

\* return pathAfterSystemdDetection, to the caller or to Get
PathReturn(p) ==
    /\ pc[p] = "Return"
    /\ returned' = Append(returned, [val |-> pathAfterSystemdDetection,
                                     changed |-> changed])
    /\ IF op[p] = "Get"
       THEN /\ arg' = [arg EXCEPT ![p] = pathAfterSystemdDetection]
            /\ pc' = [pc EXCEPT ![p] = "GetSpecific"]
       ELSE /\ arg' = arg
            /\ pc' = [pc EXCEPT ![p] = "idle"]
    /\ UNCHANGED <<files, once, pathAfterSystemdDetection, op,
                   candidateResolvConf, res, probes, changed, calls, out>>

\* what Get returns, with the path read and whether the file had changed
Returned(r, by, path, late) ==
    [op |-> by, path |-> path, file |-> r.file, err |-> r.err,
     changed |-> late]

\* Get's GetSpecific(path)
RunGetSpecific(p) ==
    /\ pc[p] = "GetSpecific"
    /\ res' = Returned(GetSpecific(files, arg[p]), op[p], arg[p], changed)
    /\ pc' = [pc EXCEPT ![p] = "idle"]
    /\ UNCHANGED <<files, once, pathAfterSystemdDetection, op,
                   candidateResolvConf, arg, probes, returned, changed,
                   calls, out>>

\* the environment: a file is written, removed or created
ChangeFile(path, st) ==
    /\ st # files[path]
    /\ files' = [files EXCEPT ![path] = st]
    /\ changed' = (changed \/ (path = defaultPath /\ Len(probes) > 0))
    /\ UNCHANGED <<once, pathAfterSystemdDetection, pc, op,
                   candidateResolvConf, arg, res, probes, returned, calls,
                   out>>

Next ==
    \/ \E p \in Procs : CallPath(p)
    \/ \E p \in Procs : CallGet(p)
    \/ \E p \in Procs : OnceDo(p)
    \/ \E p \in Procs : OnceDoSlow(p)
    \/ \E p \in Procs : DetectReadFile(p)
    \/ \E p \in Procs : DetectNameservers(p)
    \/ \E p \in Procs : OnceDone(p)
    \/ \E p \in Procs : PathReturn(p)
    \/ \E p \in Procs : RunGetSpecific(p)
    \/ \E st \in ChangedFiles : ChangeFile(defaultPath, st)

Spec == Init /\ [][Next]_vars

(***************************************************************************)
(* The parser and the reader run alone, on every input of Contents         *)
(***************************************************************************)
input == files[defaultPath].data

InitParse ==
    /\ \E f \in {Readable(c) : c \in Contents} \cup {Unreadable} :
           files = [path \in Paths |->
                       IF path = defaultPath THEN f ELSE Unreadable]
    /\ InitProgram

RunGetLines(commentMarker) ==
    /\ out.fn = "none"
    /\ files[defaultPath].ok
    /\ out' = [NoOut EXCEPT !.fn = "getLines", !.marker = commentMarker,
                            !.lines = getLines(input, commentMarker)]
    /\ UNCHANGED <<files, once, pathAfterSystemdDetection, pc, op,
                   candidateResolvConf, arg, res, probes, returned, changed,
                   calls>>

RunGetNameservers ==
    /\ out.fn = "none"
    /\ files[defaultPath].ok
    /\ out' = [NoOut EXCEPT !.fn = "getNameservers",
                            !.ns = getNameservers(input)]
    /\ UNCHANGED <<files, once, pathAfterSystemdDetection, pc, op,
                   candidateResolvConf, arg, res, probes, returned, changed,
                   calls>>

RunGetOptions ==
    /\ out.fn = "none"
    /\ files[defaultPath].ok
    /\ out' = [NoOut EXCEPT !.fn = "getOptions",
                            !.options = getOptions(input)]
    /\ UNCHANGED <<files, once, pathAfterSystemdDetection, pc, op,
                   candidateResolvConf, arg, res, probes, returned, changed,
                   calls>>

RunRead(path) ==
    /\ out.fn = "none"
    /\ out' = [NoOut EXCEPT !.fn = "GetSpecific",
                            !.res = GetSpecific(files, path)]
    /\ UNCHANGED <<files, once, pathAfterSystemdDetection, pc, op,
                   candidateResolvConf, arg, res, probes, returned, changed,
                   calls>>

NextParse ==
    \/ \E m \in Markers : RunGetLines(m)
    \/ RunGetNameservers
    \/ RunGetOptions
    \/ RunRead(defaultPath)

SpecParse == InitParse /\ [][NextParse]_vars

(***************************************************************************)
(* What the properties speak of, stated without the parser's operators:    *)
(* the lines of a text by the positions of its newlines, a comment by the  *)
(* occurrences of the marker, trimming by the non-space positions.         *)
(***************************************************************************)
Min(S) == CHOOSE x \in S : \A y \in S : x <= y
Max(S) == CHOOSE x \in S : \A y \in S : x >= y

\* the k-th smallest element of S
Kth(S, k) == CHOOSE x \in S : Cardinality({y \in S : y < x}) = k - 1

NewlineAt(text) == {i \in 1..Len(text) : text[i] = "\n"}

\* the k-th line of text, k in 1 .. number of newlines + 1
RawLine(text, k) ==
    LET nl == NewlineAt(text)
        first == IF k = 1 THEN 1 ELSE Kth(nl, k - 1) + 1
        last == IF k = Cardinality(nl) + 1 THEN Len(text) ELSE Kth(nl, k) - 1
    IN  SubSeq(text, first, last)

Occurrences(s, sub) ==
    {i \in 1..(Len(s) - Len(sub) + 1) : SubSeq(s, i, i + Len(sub) - 1) = sub}

Contains(s, sub) == Occurrences(s, sub) # {}

WithoutComment(line, marker) ==
    IF Contains(line, marker)
    THEN SubSeq(line, 1, Min(Occurrences(line, marker)) - 1)
    ELSE line

Trimmed(s) ==
    LET solid == {i \in 1..Len(s) : s[i] \notin asciiSpace}
    IN  IF solid = {} THEN <<>> ELSE SubSeq(s, Min(solid), Max(solid))

IsTrimmed(s) ==
    Len(s) > 0 => s[1] \notin asciiSpace /\ s[Len(s)] \notin asciiSpace

IsSuffix(suffix, s) ==
    /\ Len(suffix) <= Len(s)
    /\ SubSeq(s, Len(s) - Len(suffix) + 1, Len(s)) = suffix

\* the comment-stripped, trimmed text of the k-th line of a resolv.conf
Stripped(text, k) == Trimmed(WithoutComment(RawLine(text, k), commentMark))

LineCount(text) == Cardinality(NewlineAt(text)) + 1

\* the lines that begin with a keyword, and what follows the keyword
KeyLines(text, key) ==
    {k \in 1..LineCount(text) :
        /\ Len(Stripped(text, k)) >= Len(key)
        /\ SubSeq(Stripped(text, k), 1, Len(key)) = key}

Remainder(text, k, key) ==
    Trimmed(SubSeq(Stripped(text, k), Len(key) + 1, Len(Stripped(text, k))))

\* the nameserver lines whose remainder is no IP literal
BadLines(text) ==
    {k \in KeyLines(text, nameserverKey) :
        ParseIP(Remainder(text, k, nameserverKey)) = NilIP}

\* the nameservers of a text without bad lines, in file order
GoodNameservers(text) ==
    LET ks == KeyLines(text, nameserverKey)
    IN  [j \in 1..Cardinality(ks) |->
            ParseIP(Remainder(text, Kth(ks, j), nameserverKey))]

(***************************************************************************)
(* The line parser: C9                                                     *)
(***************************************************************************)
\* C9: getLines(input, marker) returns one element per newline-separated
\* line of input (number of newlines + 1), in order; element k is line k cut
\* at the first occurrence of the marker and then trimmed, so no element is
\* dropped, none contains the marker and none starts or ends with white
\* space.
C9_GetLines ==
    out.fn = "getLines" =>
        /\ Len(out.lines) = Cardinality(NewlineAt(input)) + 1
        /\ \A k \in 1..Len(out.lines) :
            /\ out.lines[k] =
                   Trimmed(WithoutComment(RawLine(input, k), out.marker))
            /\ ~Contains(out.lines[k], out.marker)
            /\ IsTrimmed(out.lines[k])

\* a comment-only line and a blank line are kept as empty elements
C9_Witness ==
    /\ out.fn = "getLines"
    /\ out.marker = commentMark
    /\ Len(out.lines) = 2
    /\ out.lines = <<<<>>, <<>>>>
    /\ RawLine(input, 1) = lineComment

(***************************************************************************)
(* The reader: C5, C6, C7, C10                                             *)
(***************************************************************************)
ReadDone == out.fn = "GetSpecific"
ReadOk == ReadDone /\ out.res.err.kind = "nil"

\* C5: GetSpecific returns a fully populated File and a nil error, or a nil
\* File and an error, never both and never a partial File.  An unreadable
\* file gives the file-access error.  A nameserver line whose remainder is
\* no IP literal gives the parse error, which names the first such line by
\* its index among the newline-split lines (from 0) and its text; no
\* nameserver of an earlier line is returned.
C5_ReadAllOrNothing ==
    ReadDone =>
        LET r == out.res
            f == files[defaultPath]
        IN  /\ \/ /\ r.err.kind = "nil"
                  /\ ~r.file.isNil
                  /\ r.file.Content = input
                  /\ r.file.Hash = hashData(input)
                  /\ Len(r.file.Nameservers) =
                         Cardinality(KeyLines(input, nameserverKey))
               \/ /\ r.err.kind # "nil"
                  /\ r.file = NilFile
            /\ ~f.ok => r.err = FileErr
            /\ f.ok /\ BadLines(input) # {} =>
                  LET k == Min(BadLines(input))
                  IN  /\ r.err.kind = "parse"
                      /\ r.err.line = k - 1
                      /\ r.err.text = Remainder(input, k, nameserverKey)
            /\ f.ok /\ BadLines(input) = {} => r.err.kind = "nil"

\* a valid nameserver line, then two bad ones: the first bad one is named
C5_Witness ==
    /\ ReadDone
    /\ out.res.err.kind = "parse"
    /\ out.res.err.line = 1
    /\ Cardinality(BadLines(input)) = 2
    /\ KeyLines(input, nameserverKey) = {1, 2, 3}

\* C6: every line that begins with option gives, in File.Options, its text
\* with the option keyword and the surrounding white space stripped; the
\* file "nameserver 8.8.8.8\n# comment\noption ndots:0" gives
\* Nameservers=[8.8.8.8] and Options=["ndots:0"].
C6_OptionKeywordStripped ==
    ReadOk =>
        LET ks == KeyLines(input, optionKey)
            opts == out.res.file.Options
        IN  /\ Len(opts) = Cardinality(ks)
            /\ \A j \in 1..Len(opts) :
                   opts[j] = Remainder(input, Kth(ks, j), optionKey)
            /\ input = scenarioFile =>
                   /\ out.res.file.Nameservers =
                          <<v4InV6Prefix \o <<8, 8, 8, 8>>>>
                   /\ opts = <<<<"n", "d", "o", "t", "s", ":", "0">>>>

\* C7: when GetSpecific succeeds, File.Nameservers has one entry per line
\* that begins with nameserver, in file order, duplicates kept and no line
\* skipped, each the address parsed from the line's remainder; a file with
\* no such line is read with success and an empty, non-nil sequence.
C7_NameserversInFileOrder ==
    /\ ReadOk =>
          /\ out.res.file.Nameservers = GoodNameservers(input)
          /\ \A j \in 1..Len(out.res.file.Nameservers) :
                 Len(out.res.file.Nameservers[j]) = 16
    /\ out.fn = "getNameservers" /\ KeyLines(input, nameserverKey) = {} =>
          /\ out.ns.err.kind = "nil"
          /\ ~out.ns.isNil
          /\ out.ns.ns = <<>>
    /\ ReadDone /\ files[defaultPath].ok
           /\ KeyLines(input, nameserverKey) = {} => ReadOk

\* the same nameserver twice and a third one, all kept in order
C7_Witness ==
    /\ ReadOk
    /\ Len(out.res.file.Nameservers) = 3
    /\ out.res.file.Nameservers[1] = out.res.file.Nameservers[2]
    /\ out.res.file.Nameservers[3] # out.res.file.Nameservers[2]

Probed == Len(probes) > 0
Saw == probes[1].saw

\* the detection failed: no readable file, or a bad nameserver line
ProbeFailed == Probed /\ (~Saw.ok \/ BadLines(Saw.data) # {})

\* the detection found systemd-resolved: one nameserver, a loopback address
StubSeen ==
    /\ Probed
    /\ Saw.ok
    /\ BadLines(Saw.data) = {}
    /\ Cardinality(KeyLines(Saw.data, nameserverKey)) = 1
    /\ IsLoopback(GoodNameservers(Saw.data)[1])

\* C1: however many calls of Path there are, one after another or at once,
\* the detection (the read of /etc/resolv.conf and the parse) runs at most
\* once, and never after a call of Path has returned.
C1_DetectionAtMostOnce ==
    /\ Len(probes) <= 1
    /\ \A i \in 1..Len(probes) : ~probes[i].afterReturn
    /\ Cardinality({p \in Procs :
           pc[p] \in {"ReadFile", "getNameservers", "doneStore"}})
         <= 1 - once.done

\* both goroutines are in Path at once, past Do, after a single detection
C1_Witness ==
    /\ Len(probes) = 1
    /\ \A p \in Procs : pc[p] = "Return"
    /\ returned = <<>>

\* C2: all calls of Path return the same string: none returns before the
\* detection has completed, and once a value has been returned every later
\* call returns it, whatever becomes of /etc/resolv.conf between the calls.
C2_SameValueAlways ==
    \A i \in 1..Len(returned) :
        /\ once.done = 1
        /\ returned[i].val = pathAfterSystemdDetection
        /\ returned[i].val = returned[1].val

\* alternatePath is returned before and after /etc/resolv.conf is removed
C2_Witness ==
    /\ Len(returned) = 2
    /\ returned[1].val = alternatePath
    /\ ~returned[1].changed
    /\ returned[2].changed
    /\ ~files[defaultPath].ok

C4_FailureGivesDefault ==
    \A i \in 1..Len(returned) :
        /\ returned[i].val \in Paths
        /\ ProbeFailed => returned[i].val = defaultPath

\* a loopback nameserver and a bad line: defaultPath, twice
C4_Witness ==
    /\ Len(returned) = 2
    /\ returned[2].val = defaultPath
    /\ Probed
    /\ Saw = Readable(Join(<<lineNsStub, lineNsBad>>))

\* C8: an error the detection absorbed comes back on the read: when the
\* detection failed and /etc/resolv.conf has not changed since, Get reads
\* defaultPath and returns no File and the same failure as an error.
C8_AbsorbedErrorResurfaces ==
    res.op = "Get" /\ ProbeFailed /\ ~res.changed =>
        /\ res.path = defaultPath
        /\ res.file = NilFile
        /\ res.err.kind = (IF Saw.ok THEN "parse" ELSE "file")
        /\ Saw.ok =>
               /\ res.err.line = Min(BadLines(Saw.data)) - 1
               /\ res.err.text =
                      Remainder(Saw.data, Min(BadLines(Saw.data)), nameserverKey)

\* Get fails on the file Path could not read, the alternate file being there
C8_Witness ==
    /\ res.op = "Get"
    /\ ProbeFailed
    /\ ~Saw.ok
    /\ ~res.changed
    /\ res.err.kind = "file"
    /\ files[alternatePath].ok
    /\ calls = 2

====
